---- MODULE Spec2Model ----
(***************************************************************************)
(* Model of the story-flow orchestrator, StoryFlowAgent._run_async_impl    *)
(* (src/story_flow_agent/agent.py), together with the five LlmAgent stages *)
(* it drives, the CriticReviserLoop LoopAgent and the PostProcessing       *)
(* SequentialAgent.                                                        *)
(*                                                                         *)
(* Texts are sequences of one-character strings, so that str.strip() and   *)
(* str.lower() are computed rather than assumed.                           *)
(***************************************************************************)
EXTENDS Naturals, Integers, Sequences, FiniteSets, TLC

VARIABLES
    pc,            \* position of _run_async_impl
    phase,         \* position of the stage run in progress
    state,         \* ctx.session.state
    invoked,       \* stage names in the order run_async was called on them
    stageEvents,   \* per stage run, the events that run produced
    pending,       \* the event the running stage has yielded, not yet relayed
    relayed,       \* events the caller of _run_async_impl has received
    times_looped,  \* LoopAgent iteration counter
    subIdx,        \* index of the next sub-agent of the running block
    genCalls,      \* generation calls made by the stage run in progress
    startState,    \* ctx.session.state when the stage run in progress began
    llm,           \* the generation service the stages are bound to
    lastAnswer,    \* per key, the last text a stage declaring that key
                   \* answered in this invocation, and the run that did
    inv,           \* number of the invocation in progress in this session
    seed,          \* the state the caller created the session with
    guardSaw       \* the current_story the check after the initial stage
                   \* read in this invocation

storyVars == <<pc, phase, state, invoked, stageEvents, pending, relayed,
               times_looped, subIdx, genCalls, startState, llm,
               lastAnswer, inv, seed, guardSaw>>

\* query_agent (src/db_search_agent/adk-agent/agent_server.py)
VARIABLES
    qpc,            \* position of query_agent
    request,        \* the AgentQueryRequest being served
    session_id,     \* session_id as query_agent last set it
    agentRuns,      \* calls of chat_runner.run
    events,         \* the events response_generator has yielded
    genEnd,         \* how the iteration over response_generator ended
    response_parts, \* response_parts
    event_count,    \* event_count
    reply           \* what the client of POST /query receives

queryVars == <<qpc, request, session_id, agentRuns, events, genEnd,
               response_parts, event_count, reply>>

\* websocket_endpoint and start_agent_session (agent_server.py)
VARIABLES
    wpc,            \* per connection, the position of websocket_endpoint
    user,           \* per connection, the user_id of the path
    client,         \* per connection, whether the client is still there
    sessions,       \* session_service: per session id, the stored session
    created,        \* per session id, how many times it was created
    session,        \* per connection, the session start_agent_session holds
    a2c,            \* per connection, the agent_to_client_messaging task
    c2a,            \* per connection, the client_to_agent_messaging task
    queue           \* per connection, the LiveRequestQueue

wsVars == <<wpc, user, client, sessions, created, session, a2c, c2a, queue>>

\* search_images (src/db_search_agent/adk-agent/tools/image_search.py)
VARIABLES
    image_query,    \* argument query of the last call
    count,          \* argument count of the last call
    db_images,      \* the images the database holds for the product found
    unsplash,       \* what the Unsplash request of the last call met
    image_result    \* the images of the dict the last call returned

imageVars == <<image_query, count, db_images, unsplash, image_result>>

\* MCPToolboxForDatabases (src/db_search_agent/adk-agent/db_wrapper.py)
VARIABLES
    connection,      \* self._connection
    connects,        \* calls of psycopg2.connect
    calls,           \* calls of execute_sql
    sql_query,       \* argument query of the last call
    parameters,      \* keys of argument parameters, in iteration order
    formatted_query, \* formatted_query of the last call
    ops,             \* what the last call did on the connection, in order
    firstError,      \* the first error raised inside the last call
    raised           \* the error the last call raised to its caller

dbVars == <<connection, connects, calls, sql_query, parameters,
            formatted_query, ops, firstError, raised>>

\* state of the product-catalog agent server (src/db_search_agent)
dbSearchVars == <<queryVars, wsVars, imageVars, dbVars>>

vars == <<storyVars, dbSearchVars>>

(***************************************************************************)
(* Bounds                                                                  *)
(***************************************************************************)
\* partial events a streaming generation call yields before its final event
MaxPartial == 1

\* invocations of root_agent in one session
MaxInvocations == 2

\* events one response generator yields to query_agent
MaxEvents == 2

\* parts of the content of one event
MaxParts == 2

\* WebSocket connections
MaxConns == 2

\* largest count asked of search_images, and largest number of images the
\* database or Unsplash holds for one query
MaxImages == 11

\* characters of a query handed to execute_sql
MaxQueryLen == 3

\* calls of execute_sql on one MCPToolboxForDatabases
MaxCalls == 2

(***************************************************************************)
(* Texts                                                                   *)
(***************************************************************************)
Str_negative == <<"n", "e", "g", "a", "t", "i", "v", "e">>
Str_Negative_ws == <<" ", "N", "e", "g", "a", "t", "i", "v", "e", " ", "\n">>
Str_NEGATIVE == <<"N", "E", "G", "A", "T", "I", "V", "E">>
Str_Positive == <<"P", "o", "s", "i", "t", "i", "v", "e">>
Str_NEUTRAL == <<"N", "E", "U", "T", "R", "A", "L">>
Str_neutral == <<"n", "e", "u", "t", "r", "a", "l">>
Str_mixed == <<"m", "i", "x", "e", "d">>
Str_neg_ative == <<"n", "e", "g", " ", "a", "t", "i", "v", "e">>
Str_empty == <<>>
Str_story == <<"s">>
Str_story2 == <<"r">>
Str_crit == <<"c">>
Str_gram == <<"g">>

\* characters str.strip() removes from both ends
Whitespace == {" ", "\n", "\t", "\r"}

\* str.lower() on one character
LowerChar(c) ==
    CASE c = "N" -> "n" [] c = "E" -> "e" [] c = "G" -> "g" [] c = "A" -> "a"
      [] c = "T" -> "t" [] c = "I" -> "i" [] c = "V" -> "v" [] c = "P" -> "p"
      [] c = "U" -> "u" [] c = "R" -> "r" [] c = "L" -> "l"
      [] OTHER -> c

Lower(s) == [i \in 1..Len(s) |-> LowerChar(s[i])]

RECURSIVE LStrip(_)
LStrip(s) == IF s # <<>> /\ Head(s) \in Whitespace THEN LStrip(Tail(s)) ELSE s

RECURSIVE RStrip(_)
RStrip(s) ==
    IF s # <<>> /\ s[Len(s)] \in Whitespace
    THEN RStrip(SubSeq(s, 1, Len(s) - 1)) ELSE s

Strip(s) == RStrip(LStrip(s))

(***************************************************************************)
(* Stages and the shared state                                             *)
(***************************************************************************)
Stages == {"story_generator", "critic", "reviser", "grammar_check", "tone_check"}

Keys == {"current_story", "criticism", "grammar_suggestions", "tone_check_result"}

\* marks a key that is not in the mapping (no text equals it: the elements
\* of a text are single characters)
Absent == <<"<absent>">>

\* the check after the initial stage has not been evaluated yet
Unset == <<"<unset>">>

\* variant: the grammar stage stores its answer under "current_story"
OutputKey_grammarStory(s) ==
    CASE s = "story_generator" -> "current_story"
      [] s = "critic" -> "criticism"
      [] s = "reviser" -> "current_story"
      [] s = "grammar_check" -> "current_story"
      [] s = "tone_check" -> "tone_check_result"

\* output_key of each LlmAgent
OutputKey(s) ==
    CASE s = "story_generator" -> "current_story"
      [] s = "critic" -> "criticism"
      [] s = "reviser" -> "current_story"
      [] s = "grammar_check" -> "grammar_suggestions"
      [] s = "tone_check" -> "tone_check_result"

\* variant: the reviser is listed before the critic
LoopSubAgents_swapped == <<"reviser", "critic">>

\* LoopAgent(sub_agents=[critic, reviser], max_iterations=2)
LoopSubAgents == <<"critic", "reviser">>
max_iterations == 2

\* variant: the tone stage is listed before the grammar stage
SeqSubAgents_swapped == <<"tone_check", "grammar_check">>

\* variant: the grammar stage is listed twice
SeqSubAgents_dupGrammar == <<"grammar_check", "grammar_check", "tone_check">>

\* SequentialAgent(sub_agents=[grammar_check, tone_check])
SeqSubAgents == <<"grammar_check", "tone_check">>

\* state.get(key, default)
Get(st, key, default) == IF st[key] = Absent THEN default ELSE st[key]

\* variant: only the absence of the key is tested, an empty story passes
StoryMissing_keyOnly(st) == st["current_story"] = Absent

\* "current_story" not in state or not state["current_story"]
StoryMissing(st) == st["current_story"] = Absent \/ st["current_story"] = <<>>

\* variant: a missing tone defaults to "negative" instead of ""
NormalizedTone_defaultNegative(st) ==
    Lower(Strip(Get(st, "tone_check_result", Str_negative)))

\* variant: the value is lowercased but not stripped
NormalizedTone_noStrip(st) == Lower(Get(st, "tone_check_result", <<>>))

\* state.get("tone_check_result", "").strip().lower()
NormalizedTone(st) == Lower(Strip(Get(st, "tone_check_result", <<>>)))

ToneIsNegative(st) == NormalizedTone(st) = Str_negative

(***************************************************************************)
(* The generation service.  Two services are modelled: a non-streaming one *)
(* whose calls yield at most one (final) event and may answer anything,    *)
(* and a streaming one whose calls yield partial events before the final   *)
(* event.                                                                  *)
(***************************************************************************)
Services == {"plain", "streaming"}

ToneTexts ==
    {Str_negative, Str_Negative_ws, Str_NEGATIVE, Str_Positive, Str_NEUTRAL,
     Str_empty, Str_mixed, Str_neg_ative}

\* texts a generation call of stage s may answer
Answers(service, s) ==
    IF service = "plain"
    THEN CASE s = "story_generator" -> {Str_empty, Str_story}
           [] s = "critic" -> {Str_empty, Str_crit}
           [] s = "reviser" -> {Str_empty, Str_story2}
           [] s = "grammar_check" -> {Str_gram}
           [] s = "tone_check" -> ToneTexts
    ELSE CASE s = "story_generator" -> {Str_story}
           [] s = "critic" -> {Str_crit}
           [] s = "reviser" -> {Str_story2}
           [] s = "grammar_check" -> {Str_gram}
           [] s = "tone_check" -> {Str_negative, Str_neutral}

\* partial events one generation call may yield
PartialLimit(service) == IF service = "plain" THEN 0 ELSE MaxPartial

\* caller-seeded session state
SeedStates(service) ==
    IF service = "plain"
    THEN {[k \in Keys |->
             CASE k = "current_story" -> cs
               [] k = "tone_check_result" -> tc
               [] OTHER -> Absent] :
             cs \in {Absent, Str_empty, Str_story},
             tc \in {Absent, Str_negative}}
    ELSE {[k \in Keys |-> Absent]}

\* no stage has answered yet in this invocation
NoAnswers(st) == [k \in Keys |-> [run |-> 0, text |-> st[k]]]

cur == IF invoked = <<>> THEN "none" ELSE invoked[Len(invoked)]

run == Len(invoked)

(***************************************************************************)
(* The product-catalog agent server before any request, connection or      *)
(* tool call                                                               *)
(***************************************************************************)
None == <<"<None>">>

NoRequest == [message |-> None, sessionId |-> None]

NoReply == [type |-> "none"]

InitQuery ==
    /\ qpc = "idle"
    /\ request = NoRequest
    /\ session_id = None
    /\ agentRuns = 0
    /\ events = <<>>
    /\ genEnd = "none"
    /\ response_parts = <<>>
    /\ event_count = 0
    /\ reply = NoReply

Conns == 1..MaxConns

Users == {"u1", "u2"}

APP_NAME == "product-catalog-agent"

\* session_id = f"{APP_NAME}_{user_id}"
SessionId(user_id) == <<APP_NAME, "_", user_id>>

SessionIds == {SessionId(u) : u \in Users}

NoSession == [id |-> <<>>, gen |-> 0]

InitWs ==
    /\ wpc = [c \in Conns |-> "none"]
    /\ user = [c \in Conns |-> "none"]
    /\ client = [c \in Conns |-> "none"]
    /\ sessions = [sid \in SessionIds |-> NoSession]
    /\ created = [sid \in SessionIds |-> 0]
    /\ session = [c \in Conns |-> NoSession]
    /\ a2c = [c \in Conns |-> "none"]
    /\ c2a = [c \in Conns |-> "none"]
    /\ queue = [c \in Conns |-> "none"]

NoToolbox == [toolbox |-> FALSE, fails |-> FALSE, images |-> <<>>]

NoResult == [images |-> <<>>, source |-> "none"]

InitImages ==
    /\ image_query = <<>>
    /\ count = 0
    /\ db_images = NoToolbox
    /\ unsplash = [outcome |-> "none", results |-> <<>>]
    /\ image_result = NoResult

\* MCPToolboxForDatabases.__init__: self._connection = None
InitToolbox ==
    /\ connection = "None"
    /\ connects = 0
    /\ calls = 0
    /\ sql_query = <<>>
    /\ parameters = <<>>
    /\ formatted_query = <<>>
    /\ ops = <<>>
    /\ firstError = "none"
    /\ raised = "none"

InitDbSearch == InitQuery /\ InitWs /\ InitImages /\ InitToolbox

Init ==
    /\ InitDbSearch
    /\ llm \in Services
    /\ state \in SeedStates(llm)
    /\ pc = "start"
    /\ phase = "idle"
    /\ invoked = <<>>
    /\ stageEvents = <<>>
    /\ pending = <<>>
    /\ relayed = <<>>
    /\ times_looped = 0
    /\ subIdx = 1
    /\ genCalls = 0
    /\ startState = state
    /\ lastAnswer = NoAnswers(state)
    /\ inv = 1
    /\ seed = state
    /\ guardSaw = Unset

(***************************************************************************)
(* A stage run: sub_agent.run_async(ctx)                                   *)
(***************************************************************************)
\* the orchestrator (or a block) calls run_async on stage s
StartStage(s) ==
    /\ invoked' = Append(invoked, s)
    /\ stageEvents' = Append(stageEvents, <<>>)
    /\ phase' = "generating"
    /\ genCalls' = 1
    /\ startState' = state

NewEvent(final) ==
    [run |-> run, seq |-> Len(stageEvents[run]) + 1, final |-> final]

Produce(e) ==
    /\ stageEvents' = [stageEvents EXCEPT ![run] = Append(@, e)]
    /\ pending' = <<e>>

\* the generation call streams a partial event; it carries no state delta
StagePartial ==
    /\ phase = "generating"
    /\ Len(stageEvents[run]) < PartialLimit(llm)
    /\ Produce(NewEvent(FALSE))
    /\ phase' = "yielded"
    /\ UNCHANGED <<dbSearchVars, guardSaw, pc, state, invoked, relayed, times_looped, subIdx,
                   genCalls, startState, llm,
                   lastAnswer, inv, seed>>

\* variant: every stage's answer is stored under "current_story"
SaveOutput_storyKey(st, s, t) == [st EXCEPT !["current_story"] = t]

\* the write of a final response with text t under the stage's output_key
SaveOutput(st, s, t) == [st EXCEPT ![OutputKey(s)] = t]

\* the generation call answers with text: the final event, whose state
\* delta stores the text under output_key
StageFinal ==
    /\ phase = "generating"
    /\ \E t \in Answers(llm, cur) :
          /\ state' = SaveOutput(state, cur, t)
          /\ lastAnswer' = [lastAnswer EXCEPT
                               ![OutputKey(cur)] = [run |-> run, text |-> t]]
    /\ Produce(NewEvent(TRUE))
    /\ phase' = "yieldedFinal"
    /\ UNCHANGED <<dbSearchVars, guardSaw, pc, invoked, relayed, times_looped, subIdx,
                   genCalls, startState, llm, inv, seed>>

\* the generation call answers without content: a final event with no
\* state delta
StageFinalEmpty ==
    /\ phase = "generating"
    /\ llm = "plain"
    /\ Produce(NewEvent(TRUE))
    /\ phase' = "yieldedFinal"
    /\ UNCHANGED <<dbSearchVars, guardSaw, pc, state, invoked, relayed, times_looped, subIdx,
                   genCalls, startState, llm,
                   lastAnswer, inv, seed>>

\* variant: a failed generation call is retried once before the stage raises
StageFail_retry ==
    /\ phase = "generating"
    /\ IF genCalls < 2
       THEN genCalls' = genCalls + 1 /\ phase' = "generating"
       ELSE genCalls' = genCalls /\ phase' = "error"
    /\ UNCHANGED <<dbSearchVars, guardSaw, pc, state, invoked, stageEvents, pending, relayed,
                   times_looped, subIdx, startState, llm,
                   lastAnswer, inv, seed>>

\* the generation call fails: the stage raises, nothing is written
StageFail ==
    /\ phase = "generating"
    /\ phase' = "error"
    /\ UNCHANGED <<dbSearchVars, guardSaw, pc, state, invoked, stageEvents, pending, relayed,
                   times_looped, subIdx, genCalls, startState, llm,
                   lastAnswer, inv, seed>>

(***************************************************************************)
(* _run_async_impl                                                         *)
(***************************************************************************)
\* variant: the async-for is left as soon as the final event shows up,
\* before that event has been yielded on
StageExhausted_eager(ph) == ph \in {"finished", "yieldedFinal"}

\* the async-for over a stage ends when the stage's generator is exhausted
StageExhausted(ph) == ph = "finished"

\* variant: an event already relayed by the same stage run is overwritten
RelayTo_overwrite(seq, e) ==
    IF seq # <<>> /\ seq[Len(seq)].run = e.run
    THEN [seq EXCEPT ![Len(seq)] = e] ELSE Append(seq, e)

\* yield event
RelayTo(seq, e) == Append(seq, e)

\* async for event in <stage or block>.run_async(ctx): yield event
Relay ==
    /\ phase \in {"yielded", "yieldedFinal"}
    /\ relayed' = RelayTo(relayed, pending[1])
    /\ pending' = <<>>
    /\ phase' = IF phase = "yielded" THEN "generating" ELSE "finished"
    /\ UNCHANGED <<dbSearchVars, guardSaw, pc, state, invoked, stageEvents, times_looped, subIdx,
                   genCalls, startState, llm,
                   lastAnswer, inv, seed>>

\* variant: the GeneratorExit is swallowed and the workflow stays where it was
OnCallerClose_ignore(p) == p

\* where the GeneratorExit raised at "yield event" leaves _run_async_impl
OnCallerClose(p) == "closed"

\* the caller closes the event stream instead of asking for the next event:
\* _run_async_impl has handed an event of the running stage to the caller
\* and is suspended at "yield event"; GeneratorExit is raised there, nothing
\* catches it, and the stage's generator is never resumed
CallerClose ==
    /\ phase \in {"yielded", "yieldedFinal"}
    /\ relayed' = RelayTo(relayed, pending[1])
    /\ pending' = <<>>
    /\ pc' = OnCallerClose(pc)
    /\ phase' = "stopped"
    /\ UNCHANGED <<dbSearchVars, guardSaw, state, invoked, stageEvents, times_looped, subIdx,
                   genCalls, startState, llm,
                   lastAnswer, inv, seed>>

\* variant: the exception is swallowed and the workflow goes on
OnStageError_swallow(p) == p

\* where an exception raised inside an async-for leaves _run_async_impl
OnStageError(p) == "raised"

\* no try/except around any stage: the exception leaves _run_async_impl
PropagateError ==
    /\ phase = "error"
    /\ pc' = OnStageError(pc)
    /\ phase' = "idle"
    /\ UNCHANGED <<dbSearchVars, guardSaw, state, invoked, stageEvents, pending, relayed,
                   times_looped, subIdx, genCalls, startState, llm,
                   lastAnswer, inv, seed>>

\* variant: the workflow starts with the critic
InitialStage_critic == "critic"

\* self.story_generator
InitialStage == "story_generator"

\* Step 1: self.story_generator.run_async(ctx)
RunStoryGenerator ==
    /\ pc = "start"
    /\ StartStage(InitialStage)
    /\ pc' = "story_generator"
    /\ UNCHANGED <<dbSearchVars, guardSaw, state, pending, relayed, times_looped, subIdx, llm,
                   lastAnswer, inv, seed>>

\* variant: a missing story raises instead of returning
GuardTarget_raise(st) == IF StoryMissing(st) THEN "raised" ELSE "loop_agent"

\* where the guard sends the workflow
GuardTarget(st) == IF StoryMissing(st) THEN "aborted" ELSE "loop_agent"

\* the check after the initial stage
Guard ==
    /\ pc = "story_generator"
    /\ StageExhausted(phase)
    /\ pc' = GuardTarget(state)
    /\ phase' = "idle"
    /\ times_looped' = 0
    /\ subIdx' = 1
    /\ guardSaw' = state["current_story"]
    /\ UNCHANGED <<dbSearchVars, state, invoked, stageEvents, pending, relayed,
                   genCalls, startState, llm,
                   lastAnswer, inv, seed>>

\* variant: off by one, the loop body runs once more
LoopContinues_offByOne(n) == n <= max_iterations

\* LoopAgent: while times_looped < max_iterations
LoopContinues(n) == n < max_iterations

\* LoopAgent: for sub_agent in self.sub_agents: sub_agent.run_async(ctx)
LoopRunSub ==
    /\ pc = "loop_agent"
    /\ phase = "idle"
    /\ LoopContinues(times_looped)
    /\ StartStage(LoopSubAgents[subIdx])
    /\ UNCHANGED <<dbSearchVars, guardSaw, pc, state, pending, relayed, times_looped, subIdx, llm,
                   lastAnswer, inv, seed>>

\* LoopAgent: a sub-agent is exhausted; after the last one times_looped += 1
LoopSubDone ==
    /\ pc = "loop_agent"
    /\ StageExhausted(phase)
    /\ phase' = "idle"
    /\ IF subIdx = Len(LoopSubAgents)
       THEN subIdx' = 1 /\ times_looped' = times_looped + 1
       ELSE subIdx' = subIdx + 1 /\ times_looped' = times_looped
    /\ UNCHANGED <<dbSearchVars, guardSaw, pc, state, invoked, stageEvents, pending, relayed,
                   genCalls, startState, llm,
                   lastAnswer, inv, seed>>

\* variant: the loop also ends as soon as the criticism is empty
LoopExit_onEmptyCriticism ==
    /\ pc = "loop_agent"
    /\ phase = "idle"
    /\ ~LoopContinues(times_looped) \/ state["criticism"] = Str_empty
    /\ pc' = "sequential_agent"
    /\ subIdx' = 1
    /\ UNCHANGED <<dbSearchVars, guardSaw, phase, state, invoked, stageEvents, pending, relayed,
                   times_looped, genCalls, startState, llm,
                   lastAnswer, inv, seed>>

\* the loop block is exhausted; Step 3 begins
LoopExit ==
    /\ pc = "loop_agent"
    /\ phase = "idle"
    /\ ~LoopContinues(times_looped)
    /\ pc' = "sequential_agent"
    /\ subIdx' = 1
    /\ UNCHANGED <<dbSearchVars, guardSaw, phase, state, invoked, stageEvents, pending, relayed,
                   times_looped, genCalls, startState, llm,
                   lastAnswer, inv, seed>>

\* SequentialAgent: for sub_agent in self.sub_agents: sub_agent.run_async(ctx)
SeqRunSub ==
    /\ pc = "sequential_agent"
    /\ phase = "idle"
    /\ subIdx <= Len(SeqSubAgents)
    /\ StartStage(SeqSubAgents[subIdx])
    /\ UNCHANGED <<dbSearchVars, guardSaw, pc, state, pending, relayed, times_looped, subIdx, llm,
                   lastAnswer, inv, seed>>

SeqSubDone ==
    /\ pc = "sequential_agent"
    /\ StageExhausted(phase)
    /\ phase' = "idle"
    /\ subIdx' = subIdx + 1
    /\ UNCHANGED <<dbSearchVars, guardSaw, pc, state, invoked, stageEvents, pending, relayed,
                   times_looped, genCalls, startState, llm,
                   lastAnswer, inv, seed>>

\* the sequential block is exhausted; Step 4 begins
SeqExit ==
    /\ pc = "sequential_agent"
    /\ phase = "idle"
    /\ subIdx > Len(SeqSubAgents)
    /\ pc' = "branch"
    /\ UNCHANGED <<dbSearchVars, guardSaw, phase, state, invoked, stageEvents, pending, relayed,
                   times_looped, subIdx, genCalls, startState, llm,
                   lastAnswer, inv, seed>>

\* if tone_check_result == "negative"
ShouldRegenerate(st) == ToneIsNegative(st)

\* Step 4, negative tone: self.story_generator.run_async(ctx)
BranchRegenerate ==
    /\ pc = "branch"
    /\ ShouldRegenerate(state)
    /\ StartStage(InitialStage)
    /\ pc' = "regenerate"
    /\ UNCHANGED <<dbSearchVars, guardSaw, state, pending, relayed, times_looped, subIdx, llm,
                   lastAnswer, inv, seed>>

\* Step 4, any other tone: keep the story
BranchKeep ==
    /\ pc = "branch"
    /\ ~ShouldRegenerate(state)
    /\ pc' = "done"
    /\ UNCHANGED <<dbSearchVars, guardSaw, phase, state, invoked, stageEvents, pending, relayed,
                   times_looped, subIdx, genCalls, startState, llm,
                   lastAnswer, inv, seed>>

\* variant: the regenerated story is sent through the tone branch again
AfterRegenerate_recheck == "branch"

\* where the workflow goes once the regeneration run is exhausted
AfterRegenerate == "done"

RegenerateDone ==
    /\ pc = "regenerate"
    /\ StageExhausted(phase)
    /\ pc' = AfterRegenerate
    /\ phase' = "idle"
    /\ UNCHANGED <<dbSearchVars, guardSaw, state, invoked, stageEvents, pending, relayed,
                   times_looped, subIdx, genCalls, startState, llm,
                   lastAnswer, inv, seed>>

Next ==
    \/ RunStoryGenerator
    \/ StagePartial
    \/ StageFinal
    \/ StageFinalEmpty
    \/ StageFail
    \/ Relay
    \/ PropagateError
    \/ CallerClose
    \/ Guard
    \/ LoopRunSub
    \/ LoopSubDone
    \/ LoopExit
    \/ SeqRunSub
    \/ SeqSubDone
    \/ SeqExit
    \/ BranchRegenerate
    \/ BranchKeep
    \/ RegenerateDone

Spec == Init /\ [][Next]_vars

(***************************************************************************)
(* Successive invocations of root_agent in one session                     *)
(***************************************************************************)
Terminal == {"done", "aborted", "raised", "closed"}

\* variant: every invocation gets a state mapping of its own
NextInvocationState_fresh(st) == [k \in Keys |-> Absent]

\* the state an invocation finds: ctx.session.state is the session's
\* mapping, which _run_async_impl neither creates nor clears
NextInvocationState(st) == st

\* root_agent is invoked again in the same session
NewInvocation ==
    /\ pc \in Terminal
    /\ inv < MaxInvocations
    /\ inv' = inv + 1
    /\ state' = NextInvocationState(state)
    /\ startState' = state'
    /\ lastAnswer' = NoAnswers(state')
    /\ pc' = "start"
    /\ phase' = "idle"
    /\ invoked' = <<>>
    /\ stageEvents' = <<>>
    /\ pending' = <<>>
    /\ relayed' = <<>>
    /\ times_looped' = 0
    /\ subIdx' = 1
    /\ genCalls' = 0
    /\ guardSaw' = Unset
    /\ UNCHANGED <<dbSearchVars, llm, seed>>

NextSessions == Next \/ NewInvocation

\* one invocation whose caller keeps consuming the event stream and whose
\* stage runs each come to an end: some enabled step is eventually taken
LiveSpec == Init /\ [][Next]_vars /\ WF_vars(Next)

SpecSessions == Init /\ [][NextSessions]_vars

TypeOK ==
    /\ pc \in {"start", "story_generator", "loop_agent", "sequential_agent",
               "branch", "regenerate", "done", "aborted", "raised",
               "closed"}
    /\ phase \in {"idle", "generating", "yielded", "yieldedFinal",
                  "finished", "error", "stopped"}
    /\ llm \in Services
    /\ \A i \in 1..Len(invoked) : invoked[i] \in Stages
    /\ Len(stageEvents) = Len(invoked)
    /\ Len(pending) <= 1
    /\ times_looped \in 0..max_iterations
    /\ genCalls \in 0..1

(***************************************************************************)
(* Helpers of the properties                                               *)
(***************************************************************************)
Count(seq, x) == Cardinality({i \in 1..Len(seq) : seq[i] = x})

IsPrefix(a, b) == Len(a) <= Len(b) /\ a = SubSeq(b, 1, Len(a))

RECURSIVE Flatten(_)
Flatten(ss) == IF ss = <<>> THEN <<>> ELSE Head(ss) \o Flatten(Tail(ss))

LaterStages == {"critic", "reviser", "grammar_check", "tone_check"}

\* the stage order of a run whose guard passes, up to the loop's end
ThroughLoop ==
    <<"story_generator", "critic", "reviser", "critic", "reviser">>

\* the stage order of a run whose guard passes, up to the tone stage
ThroughTone == ThroughLoop \o <<"grammar_check", "tone_check">>

PastLoop == {"sequential_agent", "branch", "regenerate", "done"}

\* the initial stage has been exhausted and the guard is about to be evaluated
AtGuard == pc = "story_generator" /\ phase = "finished"

(***************************************************************************)
(* C1: the first stage invoked is story_generator, and exactly one         *)
(* story_generator invocation precedes every invocation of critic,         *)
(* reviser, grammar_check or tone_check.                                   *)
(***************************************************************************)
C1_InitFirstOnce ==
    /\ invoked # <<>> => invoked[1] = "story_generator"
    /\ \A i \in 1..Len(invoked) :
          invoked[i] \in LaterStages =>
             Count(SubSeq(invoked, 1, i - 1), "story_generator") = 1

C1_Witness ==
    /\ pc = "done"
    /\ Len(invoked) = 8
    /\ invoked[8] = "story_generator"

(***************************************************************************)
(* C2: when current_story is absent or empty once the initial stage has    *)
(* completed, the guard ends the workflow: the only stage ever invoked is  *)
(* the initial one, the caller has received exactly the initial stage's    *)
(* events, and nothing happens afterwards.                                 *)
(***************************************************************************)
C2_GuardTerminates ==
    /\ [][(AtGuard /\ (state["current_story"] \in {Absent, Str_empty}))
             => (pc' = "aborted" /\ invoked' = invoked /\ relayed' = relayed)]_vars
    /\ [](pc = "aborted" =>
             /\ invoked = <<"story_generator">>
             /\ relayed = stageEvents[1]
             /\ pending = <<>>)
    /\ [][pc # "aborted"]_vars

C2_Witness ==
    /\ pc = "aborted"
    /\ state["current_story"] = Str_empty
    /\ relayed # <<>>

(***************************************************************************)
(* C3: when the guard passes and no stage fails, the loop block invokes    *)
(* critic, reviser, critic, reviser, in that order and with nothing in     *)
(* between, so that each of the two runs exactly twice.                    *)
(***************************************************************************)
C3_LoopTwiceAlternating ==
    /\ pc = "loop_agent" => IsPrefix(invoked, ThroughLoop)
    /\ pc \in PastLoop =>
          /\ IsPrefix(ThroughLoop, invoked)
          /\ Count(invoked, "critic") = 2
          /\ Count(invoked, "reviser") = 2

C3_Witness ==
    /\ pc = "sequential_agent"
    /\ invoked = ThroughLoop
    /\ times_looped = 2

(***************************************************************************)
(* C4: past the branch, the stages invoked after the tone stage are one    *)
(* run of the initial stage when tone_check_result is "negative" up to     *)
(* surrounding whitespace and letter case, and none for any other value.   *)
(***************************************************************************)
NegativeSpellings == {Str_negative, Str_Negative_ws, Str_NEGATIVE}

C4_BranchOnNormalizedTone ==
    pc \in {"regenerate", "done"} =>
       IF state["tone_check_result"] \in NegativeSpellings
       THEN invoked = ThroughTone \o <<"story_generator">>
       ELSE invoked = ThroughTone

C4_Witness ==
    /\ pc = "done"
    /\ state["tone_check_result"] = Str_Negative_ws
    /\ invoked = ThroughTone \o <<"story_generator">>

(***************************************************************************)
(* C5: at most one regeneration: the tone stage runs at most once, the     *)
(* initial stage at most twice, and a second run of the initial stage is   *)
(* the last stage of the run, after which the workflow is done, whatever   *)
(* the regenerated story is.                                               *)
(***************************************************************************)
C5_SingleRegeneration ==
    /\ Count(invoked, "tone_check") <= 1
    /\ Count(invoked, "story_generator") <= 2
    /\ Count(invoked, "story_generator") = 2 =>
          /\ invoked = ThroughTone \o <<"story_generator">>
          /\ pc \in {"regenerate", "done", "raised", "closed"}

\* the regenerated story is empty and the tone is still negative
C5_Witness ==
    /\ pc = "done"
    /\ Count(invoked, "story_generator") = 2
    /\ state["current_story"] = Str_empty
    /\ ToneIsNegative(state)

(***************************************************************************)
(* C6: a run that ends without failure past the guard has invoked exactly  *)
(* story_generator, critic, reviser, critic, reviser, grammar_check,       *)
(* tone_check (7 stages) when the tone is not negative, and those 7        *)
(* followed by story_generator (8 stages) when it is.                      *)
(***************************************************************************)
C6_SevenOrEightStages ==
    pc = "done" =>
       /\ Len(invoked) = IF ToneIsNegative(state) THEN 8 ELSE 7
       /\ SubSeq(invoked, 1, 7) =
             <<"story_generator", "critic", "reviser", "critic", "reviser",
               "grammar_check", "tone_check">>
       /\ Len(invoked) = 8 => invoked[8] = "story_generator"

C6_Witness ==
    /\ pc = "done"
    /\ Len(invoked) = 7
    /\ state["tone_check_result"] = Str_NEUTRAL

(***************************************************************************)
(* C7: what the caller has received, followed by the event in flight, is   *)
(* the concatenation of the stage runs' event sequences in stage order;    *)
(* when the run has ended the caller has received all of it.               *)
(***************************************************************************)
C7_EventsConcatenated ==
    /\ relayed \o pending = Flatten(stageEvents)
    /\ \A i, j \in 1..Len(relayed) :
          i < j => \/ relayed[i].run < relayed[j].run
                   \/ /\ relayed[i].run = relayed[j].run
                      /\ relayed[i].seq < relayed[j].seq
    /\ pc \in {"done", "aborted", "raised"} => relayed = Flatten(stageEvents)

\* every stage of a finished run produced more than one event
C7_Witness ==
    /\ pc = "done"
    /\ Len(invoked) = 8
    /\ \A r \in 1..Len(stageEvents) : Len(stageEvents[r]) >= 2

(***************************************************************************)
(* C8: a failed generation call leaves _run_async_impl as an exception:    *)
(* no further stage is invoked, and the shared state keeps every write     *)
(* made by the stages that completed before the failure.                   *)
(***************************************************************************)
C8_FailurePropagates ==
    /\ [][phase = "error" =>
             (pc' = "raised" /\ invoked' = invoked /\ state' = state)]_vars
    /\ [](pc = "raised" => state = startState)
    /\ [][pc # "raised"]_vars

\* the tone stage fails after six stages have written their outputs
C8_Witness ==
    /\ pc = "raised"
    /\ invoked = ThroughTone
    /\ state["current_story"] = Str_story2
    /\ state["criticism"] = Str_crit
    /\ state["grammar_suggestions"] = Str_gram

(***************************************************************************)
(* C9: when a stage's generation call fails, the stage's output key holds  *)
(* the value it had when the stage started, and the generation service was *)
(* called once for that stage run.                                         *)
(***************************************************************************)
C9_FailedStageWritesNothing ==
    phase = "error" =>
       /\ state[OutputKey(cur)] = startState[OutputKey(cur)]
       /\ genCalls = 1

\* the second reviser run fails over the story left by the first
C9_Witness ==
    /\ phase = "error"
    /\ cur = "reviser"
    /\ Len(invoked) = 5
    /\ state["current_story"] = Str_story2

(***************************************************************************)
(* C10: a missing or empty current_story after the initial stage ends the  *)
(* run by a normal return: the run is never left by an exception unless a  *)
(* stage failed, and at the early exit current_story is still missing or   *)
(* empty and no other key differs from the seed.                           *)
(***************************************************************************)
\* the stage run in progress has produced its final event
LastRunCompleted ==
    /\ invoked # <<>>
    /\ stageEvents[run] # <<>>
    /\ stageEvents[run][Len(stageEvents[run])].final

C10_SoftAbort ==
    /\ pc = "raised" => ~LastRunCompleted
    /\ pc = "aborted" =>
          /\ state["current_story"] \in {Absent, Str_empty}
          /\ \A k \in Keys \ {"current_story"} : state[k] = startState[k]
          /\ phase = "idle"

\* the initial stage answered without content and the seed held no story
C10_Witness ==
    /\ pc = "aborted"
    /\ state["current_story"] = Absent
    /\ Len(relayed) = 1

(***************************************************************************)
(* C11: the branch never raises because of the tone value: from the branch *)
(* the run goes to the regeneration when tone_check_result is "negative"   *)
(* up to whitespace and case, and to DONE for every other string, for the  *)
(* empty string and for an absent key; the regeneration ends in DONE       *)
(* unless its stage fails or the caller closes the stream.                 *)
(***************************************************************************)
C11_BranchNeverRaises ==
    /\ [][pc = "branch" =>
             /\ pc' = IF state["tone_check_result"] \in NegativeSpellings
                      THEN "regenerate" ELSE "done"
             /\ state' = state]_vars
    /\ [][(pc = "regenerate" /\ pc' # "regenerate")
             => (pc' = "done" \/ phase = "error" \/ pc' = "closed")]_vars

\* the tone stage wrote nothing and the key is absent
C11_Witness ==
    /\ pc = "done"
    /\ invoked = ThroughTone
    /\ state["tone_check_result"] = Absent

(***************************************************************************)
(* C12: stages never overlap: a stage is started only when no stage is     *)
(* running, the stage before it has produced its final event, and every    *)
(* event produced so far has been relayed to the caller.                   *)
(***************************************************************************)
C12_StagesSequential ==
    /\ [][invoked' # invoked =>
             /\ phase = "idle"
             /\ pending = <<>>
             /\ relayed = Flatten(stageEvents)
             /\ invoked # <<>> => LastRunCompleted]_vars
    /\ [](phase \in {"generating", "yielded", "yieldedFinal"} =>
             \A r \in 1..(run - 1) :
                /\ stageEvents[r] # <<>>
                /\ stageEvents[r][Len(stageEvents[r])].final)

\* the regeneration run starts after seven drained stage runs
C12_Witness ==
    /\ pc = "regenerate"
    /\ phase = "generating"
    /\ Len(relayed) >= 14
    /\ relayed = Flatten(SubSeq(stageEvents, 1, 7))

DeclaredKey ==
    [s \in Stages |->
        CASE s = "story_generator" -> "current_story"
          [] s = "critic" -> "criticism"
          [] s = "reviser" -> "current_story"
          [] s = "grammar_check" -> "grammar_suggestions"
          [] s = "tone_check" -> "tone_check_result"]

C14_OnlyRunningStageWrites ==
    [][state' # state =>
          /\ phase = "generating"
          /\ invoked' = invoked
          /\ pc' = pc
          /\ \A k \in Keys \ {DeclaredKey[cur]} : state'[k] = state[k]]_vars

\* the first critic run has written criticism and nothing else
C14_Witness ==
    /\ phase = "yieldedFinal"
    /\ invoked = <<"story_generator", "critic">>
    /\ state["criticism"] = Str_crit
    /\ startState["criticism"] = Absent
    /\ \A k \in Keys \ {"criticism"} : state[k] = startState[k]

LastStoryRun == IF state["tone_check_result"] \in NegativeSpellings THEN 8 ELSE 5

C17_Terminates ==
    /\ <>(pc \in Terminal)
    /\ [](Len(invoked) <= 8)
    /\ []((pc \in Terminal /\ LastRunCompleted) =>
             pc \in {"aborted", "done", "closed"})
    /\ []((pc \in Terminal /\ ~LastRunCompleted) =>
             pc \in {"raised", "closed"})

\* the longest run: eight stage runs, each with a partial and a final event
C17_Witness ==
    /\ pc = "done"
    /\ Len(invoked) = 8
    /\ Len(relayed) = 8 * (MaxPartial + 1)

(***************************************************************************)
(* C18: inside the loop the state is threaded: a reviser run starts on the *)
(* criticism answered by the critic run just before it, the second critic  *)
(* run starts on the story answered by the first reviser run, and when the *)
(* loop is over criticism and current_story hold the answers of the last   *)
(* critic run and the last reviser run.                                    *)
(***************************************************************************)
StageRunning == phase \in {"generating", "yielded", "yieldedFinal", "finished"}

\* the run before the current one answered with text under key k
PreviousRunAnswered(k) == lastAnswer[k].run = run - 1

C19_NoEarlyExit ==
    /\ [][(pc = "loop_agent" /\ pc' \notin {"loop_agent", "raised", "closed"})
             => /\ pc' = "sequential_agent"
                /\ times_looped = 2
                /\ invoked = ThroughLoop
                /\ state' = state]_vars
    /\ [][(pc = "loop_agent" /\ phase = "idle" /\ Len(invoked) < 5)
             => /\ pc' = "loop_agent"
                /\ Len(invoked') = Len(invoked) + 1]_vars

\* the loop ran in full although the criticism and the revised story are
\* empty
C19_Witness ==
    /\ pc = "sequential_agent"
    /\ invoked = ThroughLoop
    /\ state["criticism"] = Str_empty
    /\ state["current_story"] = Str_empty
    /\ lastAnswer["criticism"].run = 2
    /\ lastAnswer["current_story"].run = 3

NonEmptyText(t) == t # Absent /\ t # Unset /\ Len(t) > 0

StageSequence(storyAfterInit, toneNegative) ==
    IF ~storyAfterInit THEN <<"story_generator">>
    ELSE IF toneNegative THEN ThroughTone \o <<"story_generator">>
    ELSE ThroughTone

C21_StagesDeterminedByStoryAndTone ==
    /\ pc \in {"done", "aborted"} =>
          /\ guardSaw # Unset
          /\ invoked = StageSequence(NonEmptyText(guardSaw),
                                     ToneIsNegative(state))
    /\ guardSaw # Unset =>
          IsPrefix(invoked, StageSequence(NonEmptyText(guardSaw), TRUE))
    /\ pc \in {"regenerate", "done"} =>
          IsPrefix(invoked, StageSequence(TRUE, ToneIsNegative(state)))

\* a completed run of eight stages whose criticism and revised story were
\* empty
C21_Witness ==
    /\ pc = "done"
    /\ Len(invoked) = 8
    /\ guardSaw = Str_story
    /\ state["criticism"] = Str_empty
    /\ lastAnswer["current_story"].run = 8
    /\ state["tone_check_result"] = Str_NEGATIVE

(***************************************************************************)
(* C22: when the loop block starts, current_story is present and           *)
(* non-empty; when the sequential block starts, current_story is present   *)
(* (a reviser may have answered with an empty text).                       *)
(***************************************************************************)
LoopStarts == pc = "loop_agent" /\ Len(invoked) = 1

PostProcessStarts == pc = "sequential_agent" /\ Len(invoked) = 5

C22_StoryPresentInLaterStates ==
    /\ LoopStarts => state["current_story"] \notin {Absent, Str_empty}
    /\ PostProcessStarts => state["current_story"] # Absent

\* C22 as stated: current_story is present and non-empty at the start of
\* the loop block and at the start of the sequential block
C22_StoryNonEmptyInLaterStates ==
    (LoopStarts \/ PostProcessStarts) =>
       state["current_story"] \notin {Absent, Str_empty}

\* the sequential block starts on the empty story the second reviser run
\* answered
C22_Witness ==
    /\ PostProcessStarts
    /\ state["current_story"] = Str_empty
    /\ lastAnswer["current_story"].run = 5
    /\ guardSaw = Str_story

(***************************************************************************)
(* C23: the current_story the first critic run starts on is the text the   *)
(* initial stage answered in this same invocation.                         *)
(***************************************************************************)
C23_CriticSeesThisRunsStory ==
    (run = 2 /\ cur = "critic") =>
       /\ lastAnswer["current_story"].run = 1
       /\ startState["current_story"] = lastAnswer["current_story"].text

(***************************************************************************)
(* query_agent, POST /query                                                *)
(* (src/db_search_agent/adk-agent/agent_server.py)                         *)
(*                                                                         *)
(* Messages and text parts are sequences of characters; the texts of       *)
(* errors and the fixed apologies are sequences of fragments, and          *)
(* `x in error_str` is the presence of fragment x.                         *)
(***************************************************************************)
Messages == {Str_empty, <<" ">>, <<" ", "\n">>, <<"h", "i">>, <<" ", "h">>}

RequestSessionIds == {None, <<"s", "1">>}

\* session.id of a session create_session has just made
NewSessionId == <<"n", "e", "w">>

\* an exception: its class and str(e)
Exc(class, text) == [class |-> class, str |-> text]

\* HTTPException(status_code=400, detail="Message is required")
HTTP400 == Exc("HTTPException", <<"400", ": ", "Message is required">>)

\* what the session service or the runner may raise
ServiceErrors ==
    {Exc("ClientError", <<"429", " ", "RESOURCE_EXHAUSTED">>),
     Exc("ClientError", <<"Quota", " exceeded">>),
     Exc("ValueError", <<"Session not found">>)}

\* for part in event.content.parts, with parts None
PartsNotIterable == Exc("TypeError", <<"'NoneType' object is not iterable">>)

Str_silent == <<"Rate limit", " exceeded - no response from API">>

Msg_rate_limit == <<"I'm sorry, but I've reached the API rate limit">>

Msg_no_response == <<"I'm sorry, but I couldn't get a response">>

Has(text, fragment) == \E i \in 1..Len(text) : text[i] = fragment

LowerFragment(f) == IF f = "Quota" THEN "quota" ELSE f

HasLower(text, fragment) ==
    \E i \in 1..Len(text) : LowerFragment(text[i]) = fragment

\* variant: only the absence of the message is tested
MessageMissing_noStrip(m) == m = <<>>

\* not request.message or not request.message.strip()
MessageMissing(m) == m = <<>> \/ Strip(m) = <<>>

AgentQueryResponse(status, response, sessionId, error) ==
    [type |-> "AgentQueryResponse", status |-> status,
     response |-> response, sessionId |-> sessionId, error |-> error]

\* the handler of an exception raised anywhere inside query_agent's try
OuterExcept(e, sessionId) ==
    IF Has(e.str, "429") \/ Has(e.str, "RESOURCE_EXHAUSTED")
          \/ HasLower(e.str, "quota")
    THEN AgentQueryResponse("error", Msg_rate_limit, sessionId,
                            <<"Rate limit exceeded">>)
    ELSE AgentQueryResponse("error",
                            <<"I encountered an error: ">> \o e.str,
                            sessionId, e.str)

\* if generator_error: ...
GeneratorErrorResponse(error_str, sid) ==
    IF Has(error_str, "429") \/ Has(error_str, "RESOURCE_EXHAUSTED")
          \/ HasLower(error_str, "quota") \/ Has(error_str, "Rate limit")
    THEN AgentQueryResponse("error", Msg_rate_limit, sid,
                            <<"Rate limit exceeded">>)
    ELSE AgentQueryResponse("error",
                            <<"I encountered an error: ">> \o error_str,
                            sid, error_str)

\* variant: the parts are joined last first
RECURSIVE Join_reversed(_, _)
Join_reversed(sep, parts) ==
    IF parts = <<>> THEN <<>>
    ELSE IF Len(parts) = 1 THEN parts[1]
    ELSE Join_reversed(sep, Tail(parts)) \o sep \o Head(parts)

\* sep.join(parts)
RECURSIVE Join(_, _)
Join(sep, parts) ==
    IF parts = <<>> THEN <<>>
    ELSE IF Len(parts) = 1 THEN parts[1]
    ELSE Head(parts) \o sep \o Join(sep, Tail(parts))

\* variant: an answer without text parts still succeeds
CollectedResponse_emptySuccess(parts, sid) ==
    AgentQueryResponse("success", Join(<<" ">>, parts), sid, None)

\* if not response_parts: ... ; response_text = " ".join(response_parts)
CollectedResponse(parts, sid) ==
    IF parts = <<>>
    THEN AgentQueryResponse("error", Msg_no_response, sid,
                            <<"No response received - possible rate limit">>)
    ELSE AgentQueryResponse("success", Join(<<" ">>, parts), sid, None)

SeqsUpTo(S, n) == UNION {[1..k -> S] : k \in 0..n}

\* part.text of a part: None for a part that is not text
PartTexts == {None, Str_empty, <<"a">>, <<"b">>}

\* the events chat_runner.run may yield: without content, with a content
\* whose parts is None, or with a content of up to MaxParts parts
EventContents ==
    {[content |-> "None", parts |-> <<>>],
     [content |-> "parts_None", parts |-> <<>>]}
    \cup {[content |-> "parts", parts |-> ps] :
             ps \in SeqsUpTo(PartTexts, MaxParts)}

\* hasattr(part, 'text') and part.text
HasText(t) == t # None /\ t # <<>>

\* the texts query_agent appends to response_parts for one event
TextParts(ev) ==
    IF ev.content = "parts" THEN SelectSeq(ev.parts, HasText) ELSE <<>>

\* query_agent returns r (or FastAPI answers for it)
Respond(r) ==
    /\ reply' = r
    /\ qpc' = "responded"

\* the request arrives: validation, session, chat_runner.run
QueryReceive ==
    /\ qpc = "idle"
    /\ \E m \in Messages, sid \in RequestSessionIds :
          /\ request' = [message |-> m, sessionId |-> sid]
          /\ IF MessageMissing(m)
             THEN \* raise HTTPException(400), inside the try
                  /\ Respond(OuterExcept(HTTP400, sid))
                  /\ UNCHANGED <<session_id, agentRuns>>
             ELSE \/ \* get_session answered: session_id stays the request's
                     /\ sid # None
                     /\ session_id' = sid
                     /\ agentRuns' = agentRuns + 1
                     /\ qpc' = "collecting"
                     /\ reply' = reply
                  \/ \* create_session made a session, at once or in the
                     \* inner except
                     /\ session_id' = NewSessionId
                     /\ agentRuns' = agentRuns + 1
                     /\ qpc' = "collecting"
                     /\ reply' = reply
                  \/ \* create_session raised where nothing but the outer
                     \* except catches it
                     /\ \E e \in ServiceErrors :
                           Respond(OuterExcept(e, sid))
                     /\ UNCHANGED <<session_id, agentRuns>>
    /\ UNCHANGED <<events, genEnd, response_parts, event_count>>
    /\ UNCHANGED <<storyVars, wsVars, imageVars, dbVars>>

\* for event in response_generator: one more event
GeneratorYield ==
    /\ qpc = "collecting"
    /\ Len(events) < MaxEvents
    /\ \E ev \in EventContents :
          /\ events' = Append(events, ev)
          /\ event_count' = event_count + 1
          /\ IF ev.content = "parts_None"
             THEN \* the for over parts raises TypeError, caught at 399
                  /\ genEnd' = "abandoned"
                  /\ Respond(GeneratorErrorResponse(PartsNotIterable.str,
                                                    session_id))
                  /\ UNCHANGED response_parts
             ELSE /\ response_parts' = response_parts \o TextParts(ev)
                  /\ UNCHANGED <<genEnd, qpc, reply>>
    /\ UNCHANGED <<request, session_id, agentRuns>>
    /\ UNCHANGED <<storyVars, wsVars, imageVars, dbVars>>

\* the generator raises: except Exception as gen_error
GeneratorRaise ==
    /\ qpc = "collecting"
    /\ genEnd' = "raised"
    /\ \E e \in ServiceErrors :
          Respond(GeneratorErrorResponse(e.str, session_id))
    /\ UNCHANGED <<request, session_id, agentRuns, events, response_parts,
                   event_count>>
    /\ UNCHANGED <<storyVars, wsVars, imageVars, dbVars>>

\* the generator is exhausted: the rest of query_agent
GeneratorExhausted ==
    /\ qpc = "collecting"
    /\ genEnd' = "exhausted"
    /\ IF event_count = 0 /\ response_parts = <<>>
       THEN Respond(GeneratorErrorResponse(Str_silent, session_id))
       ELSE Respond(CollectedResponse(response_parts, session_id))
    /\ UNCHANGED <<request, session_id, agentRuns, events, response_parts,
                   event_count>>
    /\ UNCHANGED <<storyVars, wsVars, imageVars, dbVars>>

NextQuery ==
    \/ QueryReceive
    \/ GeneratorYield
    \/ GeneratorRaise
    \/ GeneratorExhausted

\* the story workflow at rest
StoryIdle == Init /\ llm = "streaming"

SpecQuery == StoryIdle /\ [][NextQuery]_vars

(***************************************************************************)
(* C24: a request whose message is empty or only whitespace is answered    *)
(* with an HTTP 400 "Message is required" and the agent is not run for it. *)
(***************************************************************************)
MessageBlank(m) == \A i \in 1..Len(m) : m[i] \in Whitespace

C24_BlankMessageGets400 ==
    (qpc = "responded" /\ MessageBlank(request.message)) =>
       /\ agentRuns = 0
       /\ reply.type = "HTTPException"

(***************************************************************************)
(* C30: a request with a non-blank message is always answered with an      *)
(* AgentQueryResponse of status "success" or "error"; the status is        *)
(* "success" exactly when the generator was exhausted without an error and *)
(* yielded a non-empty text part, and then response holds the text parts   *)
(* in the order the generator yielded them.                                *)
(***************************************************************************)
YieldedTexts(evs) ==
    Flatten([i \in 1..Len(evs) |->
                IF evs[i].content = "parts"
                THEN SelectSeq(evs[i].parts, HasText) ELSE <<>>])

NotSpace(c) == c # " "

C30_QueryAlwaysAnswers ==
    (qpc = "responded" /\ ~MessageBlank(request.message)) =>
       /\ reply.type = "AgentQueryResponse"
       /\ reply.status \in {"success", "error"}
       /\ reply.status = "success" <=>
             (genEnd = "exhausted" /\ YieldedTexts(events) # <<>>)
       /\ reply.status = "success" =>
             SelectSeq(reply.response, NotSpace) = Flatten(YieldedTexts(events))

\* a success made of three text parts from two events, one part empty
C30_Witness ==
    /\ qpc = "responded"
    /\ reply.type = "AgentQueryResponse"
    /\ reply.status = "success"
    /\ Len(events) = 2
    /\ events[1].parts = <<<<"b">>, <<"a">>>>
    /\ events[2].parts = <<Str_empty, <<"b">>>>
    /\ reply.response = <<"b", " ", "a", " ", "b">>

(***************************************************************************)
(* websocket_endpoint, /ws/{user_id}, with start_agent_session and the two *)
(* messaging tasks (src/db_search_agent/adk-agent/agent_server.py).        *)
(* Every await is a point where another connection may run.                *)
(***************************************************************************)
\* the rest of start_agent_session and of websocket_endpoint up to the
\* wait: LiveRequestQueue(), run_live, the two create_task calls
StartMessaging(c, sess) ==
    /\ session' = [session EXCEPT ![c] = sess]
    /\ queue' = [queue EXCEPT ![c] = "open"]
    /\ a2c' = [a2c EXCEPT ![c] = "running"]
    /\ c2a' = [c2a EXCEPT ![c] = "running"]
    /\ wpc' = [wpc EXCEPT ![c] = "wait"]

\* a client connects: await websocket.accept(), which may raise
WsAccept(c) ==
    /\ wpc[c] = "none"
    /\ \E u \in Users : user' = [user EXCEPT ![c] = u]
    /\ \/ /\ wpc' = [wpc EXCEPT ![c] = "accepted"]
          /\ client' = [client EXCEPT ![c] = "connected"]
       \/ /\ wpc' = [wpc EXCEPT ![c] = "failed"]
          /\ client' = [client EXCEPT ![c] = "gone"]
    /\ UNCHANGED <<sessions, created, session, a2c, c2a, queue>>
    /\ UNCHANGED <<storyVars, queryVars, imageVars, dbVars>>

\* session = await session_service.get_session(...); with a session the
\* endpoint goes on to the wait without another await
GetSession(c) ==
    /\ wpc[c] = "accepted"
    /\ IF sessions[SessionId(user[c])] # NoSession
       THEN StartMessaging(c, sessions[SessionId(user[c])])
       ELSE /\ wpc' = [wpc EXCEPT ![c] = "create_session"]
            /\ UNCHANGED <<session, a2c, c2a, queue>>
    /\ UNCHANGED <<user, client, sessions, created>>
    /\ UNCHANGED <<storyVars, queryVars, imageVars, dbVars>>

\* the session create_session stores under sid
NewSession(sid) == [id |-> sid, gen |-> created[sid] + 1]

\* if not session: session = await session_service.create_session(...);
\* on an id that exists by now the service either stores a new session
\* over the old one or raises, and the endpoint's except closes the socket
CreateSession(c) ==
    /\ wpc[c] = "create_session"
    /\ \/ /\ sessions' = [sessions EXCEPT ![SessionId(user[c])] =
                                             NewSession(SessionId(user[c]))]
          /\ created' = [created EXCEPT ![SessionId(user[c])] = @ + 1]
          /\ StartMessaging(c, NewSession(SessionId(user[c])))
          /\ UNCHANGED client
       \/ /\ sessions[SessionId(user[c])] # NoSession
          /\ wpc' = [wpc EXCEPT ![c] = "failed"]
          /\ client' = [client EXCEPT ![c] = "gone"]
          /\ UNCHANGED <<sessions, created, session, a2c, c2a, queue>>
    /\ UNCHANGED user
    /\ UNCHANGED <<storyVars, queryVars, imageVars, dbVars>>

\* the client goes away while the endpoint waits
ClientDisconnects(c) ==
    /\ wpc[c] = "wait"
    /\ client[c] = "connected"
    /\ client' = [client EXCEPT ![c] = "gone"]
    /\ UNCHANGED <<wpc, user, sessions, created, session, a2c, c2a, queue>>
    /\ UNCHANGED <<storyVars, queryVars, imageVars, dbVars>>

\* client_to_agent_messaging: receive_text raises WebSocketDisconnect,
\* which the task catches and returns
ReceiveRaises(c) ==
    /\ c2a[c] = "running"
    /\ client[c] = "gone"
    /\ c2a' = [c2a EXCEPT ![c] = "returned"]
    /\ UNCHANGED <<wpc, user, client, sessions, created, session, a2c, queue>>
    /\ UNCHANGED <<storyVars, queryVars, imageVars, dbVars>>

\* client_to_agent_messaging: a message that is not JSON or whose mime type
\* is not supported raises, which the task catches and returns
ReceiveUnsupported(c) ==
    /\ c2a[c] = "running"
    /\ client[c] = "connected"
    /\ c2a' = [c2a EXCEPT ![c] = "returned"]
    /\ UNCHANGED <<wpc, user, client, sessions, created, session, a2c, queue>>
    /\ UNCHANGED <<storyVars, queryVars, imageVars, dbVars>>

\* agent_to_client_messaging: an event to send arrives after the client
\* has gone; send_text raises, which the task catches and returns
SendRaises(c) ==
    /\ a2c[c] = "running"
    /\ client[c] = "gone"
    /\ a2c' = [a2c EXCEPT ![c] = "returned"]
    /\ UNCHANGED <<wpc, user, client, sessions, created, session, c2a, queue>>
    /\ UNCHANGED <<storyVars, queryVars, imageVars, dbVars>>

\* agent_to_client_messaging: live_events ends or raises; the task returns
LiveEventsEnd(c) ==
    /\ a2c[c] = "running"
    /\ a2c' = [a2c EXCEPT ![c] = "returned"]
    /\ UNCHANGED <<wpc, user, client, sessions, created, session, c2a, queue>>
    /\ UNCHANGED <<storyVars, queryVars, imageVars, dbVars>>

\* variant: asyncio.wait(tasks, return_when=asyncio.FIRST_COMPLETED)
WaitOver_firstCompleted(tasks) ==
    \E i \in 1..Len(tasks) : tasks[i] \in {"returned", "raised"}

\* asyncio.wait(tasks, return_when=asyncio.FIRST_EXCEPTION) returns when a
\* task has ended by raising or when every task has ended
WaitOver(tasks) ==
    \/ \E i \in 1..Len(tasks) : tasks[i] = "raised"
    \/ \A i \in 1..Len(tasks) : tasks[i] \in {"returned", "raised"}

\* the wait returns; finally: live_request_queue.close()
WaitReturns(c) ==
    /\ wpc[c] = "wait"
    /\ WaitOver(<<a2c[c], c2a[c]>>)
    /\ queue' = [queue EXCEPT ![c] = "closed"]
    /\ wpc' = [wpc EXCEPT ![c] = "returned"]
    /\ UNCHANGED <<user, client, sessions, created, session, a2c, c2a>>
    /\ UNCHANGED <<storyVars, queryVars, imageVars, dbVars>>

NextWs ==
    \E c \in Conns :
       \/ WsAccept(c)
       \/ GetSession(c)
       \/ CreateSession(c)
       \/ ClientDisconnects(c)
       \/ ReceiveRaises(c)
       \/ ReceiveUnsupported(c)
       \/ SendRaises(c)
       \/ LiveEventsEnd(c)
       \/ WaitReturns(c)

SpecWs == StoryIdle /\ [][NextWs]_vars

\* the endpoint's own steps are taken when they stay possible: the wait
\* returns once asyncio lets it, and a receive on a closed socket raises.
\* Nothing is assumed of the agent or of the client.
LiveWs ==
    /\ StoryIdle
    /\ [][NextWs]_vars
    /\ \A c \in Conns : WF_vars(WaitReturns(c)) /\ WF_vars(ReceiveRaises(c))

(***************************************************************************)
(* C25: once either messaging task of a connection has completed, the      *)
(* endpoint eventually leaves the wait and closes the live request queue,  *)
(* also when the agent produces no further event.                          *)
(***************************************************************************)
C25_QueueEventuallyClosed ==
    \A c \in Conns :
       (a2c[c] = "returned" \/ c2a[c] = "returned") ~> (queue[c] = "closed")

Min(a, b) == IF a <= b THEN a ELSE b

Max(a, b) == IF a >= b THEN a ELSE b

\* seq[:k]
PySlice(seq, k) ==
    IF k >= 0 THEN SubSeq(seq, 1, Min(k, Len(seq)))
    ELSE SubSeq(seq, 1, Max(Len(seq) + k, 0))

\* sub in s
Contains(s, sub) ==
    \E i \in 1..(Len(s) - Len(sub) + 1) : SubSeq(s, i, i + Len(sub) - 1) = sub

Key_t_shirt == <<"t", "-", "s", "h", "i", "r", "t">>
Key_tshirt == <<"t", "s", "h", "i", "r", "t">>
Key_t_space_shirt == <<"t", " ", "s", "h", "i", "r", "t">>
Key_shirt == <<"s", "h", "i", "r", "t">>
Key_red == <<"r", "e", "d">>
Key_jeans == <<"j", "e", "a", "n", "s">>
Key_pants == <<"p", "a", "n", "t", "s">>

\* for key in ["t-shirt", "tshirt", "t shirt", "shirt", "red", "jeans", "pants"]
FallbackKeys ==
    <<Key_t_shirt, Key_tshirt, Key_t_space_shirt, Key_shirt, Key_red,
      Key_jeans, Key_pants>>

\* fallback_urls
FallbackUrls(key) ==
    CASE key = Key_pants -> <<104, 105>>
      [] key = Key_jeans -> <<104>>
      [] key = Key_t_shirt -> <<101, 102, 103>>
      [] key = Key_tshirt -> <<101, 102, 103>>
      [] key = Key_shirt -> <<101, 102>>
      [] key = Key_t_space_shirt -> <<101, 102, 103>>
      [] key = Key_red -> <<101>>

ImageQueries ==
    {<<"R", "e", "d", " ", "T", "-", "s", "h", "i", "r", "t">>,
     <<" ", "j", "e", "a", "n", "s">>,
     <<"r", "e", "d", " ", "p", "a", "n", "t", "s">>,
     <<"y", "o", "g", "a", " ", "m", "a", "t">>}

\* the values of count the callers pass
Counts == (0 - 1)..MaxImages

\* n images, the first one without url when nourl
ImageList(n, nourl) == [i \in 1..n |-> IF nourl /\ i = 1 THEN 0 ELSE i]

ImageLists == {ImageList(n, b) : n \in 0..MaxImages, b \in BOOLEAN}

\* the database as search_images finds it: no toolbox, a toolbox whose
\* search fails or finds no product, or a product with its images
Databases ==
    {NoToolbox, [toolbox |-> TRUE, fails |-> TRUE, images |-> <<>>]}
    \cup {[toolbox |-> TRUE, fails |-> FALSE, images |-> l] : l \in ImageLists}

\* what the Unsplash request meets: no access key, a 200 with results,
\* another status, or an exception of requests.get
UnsplashOutcomes ==
    {[outcome |-> o, results |-> <<>>] :
        o \in {"no_key", "status_error", "exception"}}
    \cup {[outcome |-> "ok", results |-> l] : l \in ImageLists}

HasUrl(img) == img # 0

\* the image_list of get_product_images_from_db, empty where it returns {}
get_product_images_from_db(db, cnt) ==
    IF ~db.toolbox \/ db.fails THEN <<>>
    ELSE SelectSeq(PySlice(db.images, cnt), HasUrl)

\* the first key of FallbackKeys found in the query, 0 if none
MatchedKey(q) ==
    IF \E k \in 1..Len(FallbackKeys) : Contains(Lower(Strip(q)), FallbackKeys[k])
    THEN CHOOSE k \in 1..Len(FallbackKeys) :
            /\ Contains(Lower(Strip(q)), FallbackKeys[k])
            /\ \A j \in 1..(k - 1) : ~Contains(Lower(Strip(q)), FallbackKeys[j])
    ELSE 0

_get_fallback_images(q, cnt) ==
    [images |-> PySlice(IF MatchedKey(q) = 0 THEN FallbackUrls(Key_t_shirt)
                        ELSE FallbackUrls(FallbackKeys[MatchedKey(q)]), cnt),
     source |-> "fallback"]

COUNT_LIMIT == 10

\* variant: count is clamped to 1..10 before the database is asked
ClampedForDb_clamped(cnt) == Min(Max(1, cnt), COUNT_LIMIT)

\* the count handed to get_product_images_from_db
ClampedForDb(cnt) == cnt

\* count = min(max(1, count), 10)
Clamped(cnt) == Min(Max(1, cnt), COUNT_LIMIT)

search_images(q, cnt, db, api) ==
    IF db.toolbox /\ get_product_images_from_db(db, ClampedForDb(cnt)) # <<>>
    THEN [images |-> get_product_images_from_db(db, ClampedForDb(cnt)),
          source |-> "database"]
    ELSE IF api.outcome = "ok"
    THEN [images |-> SelectSeq(PySlice(api.results, Clamped(cnt)), HasUrl),
          source |-> "unsplash"]
    ELSE _get_fallback_images(q, Clamped(cnt))

\* one call of search_images
SearchImages ==
    /\ image_result = NoResult
    /\ \E q \in ImageQueries, cnt \in Counts, db \in Databases,
          api \in UnsplashOutcomes :
          /\ image_query' = q
          /\ count' = cnt
          /\ db_images' = db
          /\ unsplash' = api
          /\ image_result' = search_images(q, cnt, db, api)
    /\ UNCHANGED <<storyVars, queryVars, wsVars, dbVars>>

NextImages == SearchImages

SpecImages == StoryIdle /\ [][NextImages]_vars

(***************************************************************************)
(* C26: on every path, search_images returns at least 0 and at most        *)
(* min(count, 10) images.                                                  *)
(***************************************************************************)
C26_AtMostMinCountTen ==
    image_result # NoResult =>
       /\ Len(image_result.images) >= 0
       /\ Len(image_result.images) <= Min(count, 10)

(***************************************************************************)
(* MCPToolboxForDatabases (src/db_search_agent/adk-agent/db_wrapper.py).   *)
(* Queries are sequences of characters over ":" and the letters of the     *)
(* parameter names; the names query and query_normalized that              *)
(* search_products_mcp passes together are abbreviated q and qn.           *)
(***************************************************************************)
Param_query == <<"q">>

Param_query_normalized == <<"q", "n">>

ParamNames == {Param_query, Param_query_normalized}

NameChars == {"q", "n"}

SqlChars == {":"} \cup NameChars

SqlQueries == SeqsUpTo(SqlChars, MaxQueryLen)

\* the keys of a parameters dict, in the order parameters.keys() gives them
ParameterOrders ==
    {ps \in SeqsUpTo(ParamNames, Cardinality(ParamNames)) :
        \A i, j \in 1..Len(ps) : i # j => ps[i] # ps[j]}

\* s.replace(old, new), old not empty
RECURSIVE Replace(_, _, _)
Replace(str, old, new) ==
    IF Len(str) < Len(old) THEN str
    ELSE IF SubSeq(str, 1, Len(old)) = old
    THEN new \o Replace(SubSeq(str, Len(old) + 1, Len(str)), old, new)
    ELSE <<Head(str)>> \o Replace(Tail(str), old, new)

\* f"%({key})s"
Binding(key) == <<"%", "(">> \o key \o <<")", "s">>

\* variant: the keys are taken longest first
RECURSIVE FormatQuery_longestFirst(_, _)
FormatQuery_longestFirst(q, ps) ==
    IF ps = <<>> THEN q
    ELSE LET k == CHOOSE i \in 1..Len(ps) :
                     \A j \in 1..Len(ps) : Len(ps[j]) <= Len(ps[i])
         IN FormatQuery_longestFirst(
               Replace(q, <<":">> \o ps[k], Binding(ps[k])),
               SubSeq(ps, 1, k - 1) \o SubSeq(ps, k + 1, Len(ps)))

\* for key in parameters.keys():
\*     formatted_query = formatted_query.replace(f":{key}", f"%({key})s")
RECURSIVE FormatQuery(_, _)
FormatQuery(q, ps) ==
    IF ps = <<>> THEN q
    ELSE FormatQuery(Replace(q, <<":">> \o Head(ps), Binding(Head(ps))),
                     Tail(ps))

\* self._connection is None or self._connection.closed
NeedsConnect(conn) == conn \in {"None", "closed"}

\* where one call of execute_sql meets its first error, if anywhere
Failures == {"none", "connect", "execute", "execute_lost", "commit"}

\* the error the failing step raises
ErrorOf(failure) ==
    CASE failure = "connect" -> "OperationalError"
      [] failure = "execute" -> "ProgrammingError"
      [] failure = "execute_lost" -> "OperationalError"
      [] failure = "commit" -> "OperationalError"
      [] OTHER -> "none"

\* variant: the handler swallows a failing rollback
Rollback_guarded(conn, err) ==
    IF conn = "None" THEN [ops |-> <<>>, raised |-> err]
    ELSE [ops |-> <<"rollback">>, raised |-> err]

\* except Exception: if self._connection: self._connection.rollback(); raise
\* rollback() on a closed connection raises InterfaceError, which replaces
\* the error being handled
Rollback(conn, err) ==
    IF conn = "None" THEN [ops |-> <<>>, raised |-> err]
    ELSE IF conn = "closed"
    THEN [ops |-> <<"rollback">>, raised |-> "InterfaceError"]
    ELSE [ops |-> <<"rollback">>, raised |-> err]

\* the connection after the step that fails (or after the call, if none)
ConnectionAfter(conn, failure) ==
    CASE failure = "connect" -> conn
      [] failure \in {"execute_lost", "commit"} -> "closed"
      [] OTHER -> "open"

\* what the call does on the connection up to its first error
OpsUpTo(conn, failure) ==
    (IF NeedsConnect(conn) THEN <<"connect">> ELSE <<>>)
    \o (IF failure = "connect" THEN <<>> ELSE <<"cursor", "execute">>)
    \o (IF failure \in {"none", "commit"} THEN <<"commit">> ELSE <<>>)

\* one call of execute_sql
ExecuteSql ==
    /\ calls < MaxCalls
    /\ calls' = calls + 1
    /\ \E q \in SqlQueries, ps \in ParameterOrders, failure \in Failures :
          /\ failure = "connect" => NeedsConnect(connection)
          /\ sql_query' = q
          /\ parameters' = ps
          /\ connects' = IF NeedsConnect(connection) THEN connects + 1
                         ELSE connects
          /\ connection' = ConnectionAfter(connection, failure)
          /\ formatted_query' = IF failure = "connect" THEN <<>>
                                ELSE FormatQuery(q, ps)
          /\ firstError' = ErrorOf(failure)
          /\ IF failure = "none"
             THEN /\ ops' = OpsUpTo(connection, failure)
                  /\ raised' = "none"
             ELSE /\ ops' = OpsUpTo(connection, failure)
                             \o Rollback(connection', ErrorOf(failure)).ops
                  /\ raised' = Rollback(connection', ErrorOf(failure)).raised
    /\ UNCHANGED <<storyVars, queryVars, wsVars, imageVars>>

\* close(): if self._connection and not self._connection.closed: close it
Close ==
    /\ connection = "open"
    /\ connection' = "closed"
    /\ UNCHANGED <<connects, calls, sql_query, parameters, formatted_query,
                   ops, firstError, raised>>
    /\ UNCHANGED <<storyVars, queryVars, wsVars, imageVars>>

NextToolbox == ExecuteSql \/ Close

SpecToolbox == StoryIdle /\ [][NextToolbox]_vars

(***************************************************************************)
(* C27: execute_sql commits when the statement succeeds; when something    *)
(* fails while a connection exists it rolls back and raises the error      *)
(* that made it fail; and a call connects exactly when there is no         *)
(* connection or the connection is closed.                                 *)
(***************************************************************************)
C27_CommitRollbackReuse ==
    /\ [](calls > 0 =>
             /\ firstError = "none" =>
                   (raised = "none" /\ ops[Len(ops)] = "commit")
             /\ (firstError # "none" /\ connection # "None") =>
                   (Has(ops, "rollback") /\ raised = firstError))
    /\ [][calls' = calls + 1 =>
             (Has(ops', "connect") <=> connection \in {"None", "closed"})]_vars

(***************************************************************************)
(* C28: the query execute_sql hands to the cursor is the query in which    *)
(* every placeholder :name whose name is a key of the parameters has       *)
(* become %(name)s and nothing else has changed, whatever the order of the *)
(* keys and also when one name is a prefix of another.                     *)
(***************************************************************************)
\* the longest run of name characters at the head of str
RECURSIVE NameAt(_)
NameAt(str) ==
    IF str # <<>> /\ Head(str) \in NameChars
    THEN <<Head(str)>> \o NameAt(Tail(str)) ELSE <<>>

RECURSIVE BoundQuery(_, _)
BoundQuery(str, names) ==
    IF str = <<>> THEN <<>>
    ELSE IF Head(str) = ":" /\ NameAt(Tail(str)) \in names
    THEN Binding(NameAt(Tail(str)))
            \o BoundQuery(SubSeq(str, 2 + Len(NameAt(Tail(str))), Len(str)),
                          names)
    ELSE <<Head(str)>> \o BoundQuery(Tail(str), names)

\* the names of the placeholders of str
PlaceholderNames(str) ==
    {NameAt(SubSeq(str, i + 1, Len(str))) : i \in {j \in 1..Len(str) : str[j] = ":"}}

\* stated for the calls whose every placeholder has its parameter
C28_PlaceholdersRewritten ==
    (/\ calls > 0
     /\ Has(ops, "execute")
     /\ PlaceholderNames(sql_query)
           \subseteq {parameters[i] : i \in 1..Len(parameters)}) =>
       formatted_query =
          BoundQuery(sql_query, {parameters[i] : i \in 1..Len(parameters)})
====
